---- MODULE Spec2Model ----
(***************************************************************************)
(* A model of datasketch's MinHash (src/datasketch/minhash.py) and of its  *)
(* ImmutableMinHash subclass (src/datasketch/immutable_minhash.py).  The   *)
(* name immutable_minhash.py imports, `from datasketch import MinHash`, is *)
(* taken to be the class of minhash.py.                                    *)
(*                                                                         *)
(* Integers wider than 31 bits are little-endian byte strings (base 256),  *)
(* the layout struct packs them in: a hash value is a numpy uint64 (8      *)
(* bytes), a digest word 4 bytes.  Arithmetic on them is carried out at a  *)
(* stated width in bytes and wraps modulo 256^width, as numpy's does.      *)
(***************************************************************************)
EXTENDS Integers, Sequences, FiniteSets, TLC

(***************************************************************************)
(* Bounds of the model.                                                    *)
(***************************************************************************)
\* largest num_perm a caller passes
MaxPerm == 2
\* most sketches handed to one union call
MaxUnion == 3

(***************************************************************************)
(* Byte-string arithmetic.                                                 *)
(***************************************************************************)
\* np.uint64: the dtype of hashvalues and permutations
U64Bytes == 8
\* struct 'I' / 'i': 4 bytes
U32Bytes == 4
\* a width in which a * hv + b never wraps (a, b < 2^61, hv < 2^32)
WideBytes == U64Bytes + U32Bytes

\* A sequence as an explicit tuple.  TLC keeps [i \in 1..n |-> e] unevaluated
\* and recomputes an element at every use; the tuple holds the values.
Tuple(f) == SubSeq(f, 1, Len(f))

Zero(n) == Tuple([i \in 1..n |-> 0])

\* a natural number below 2^31 as an n-byte little-endian string
FromNat(v, n) ==
  Tuple([i \in 1..n |-> CASE i = 1 -> v % 256
                          [] i = 2 -> (v \div 256) % 256
                          [] i = 3 -> (v \div 65536) % 256
                          [] i = 4 -> (v \div 16777216) % 256
                          [] OTHER -> 0])

\* x widened (zero-extended) or cut to n bytes
Resize(x, n) == Tuple([i \in 1..n |-> IF i <= Len(x) THEN x[i] ELSE 0])

\* x < y for byte strings of one length
Lt(x, y) ==
  \E i \in 1..Len(x) :
     /\ x[i] < y[i]
     /\ \A j \in (i+1)..Len(x) : x[j] = y[j]

Le(x, y) == ~Lt(y, x)

\* (x + y) mod 256^n
AddN(x, y, n) ==
  LET xx == Resize(x, n)
      yy == Resize(y, n)
      c[i \in 0..n] == IF i = 0 THEN 0 ELSE (xx[i] + yy[i] + c[i-1]) \div 256
  IN  Tuple([i \in 1..n |-> (xx[i] + yy[i] + c[i-1]) % 256])

\* (x - y) mod 256^n
SubN(x, y, n) ==
  LET xx == Resize(x, n)
      yy == Resize(y, n)
      b[i \in 0..n] == IF i = 0 THEN 0
                       ELSE IF xx[i] - yy[i] - b[i-1] < 0 THEN 1 ELSE 0
  IN  Tuple([i \in 1..n |-> (xx[i] - yy[i] - b[i-1]) % 256])

\* (x * y) mod 256^n
MulN(x, y, n) ==
  LET xx == Resize(x, n)
      yy == Resize(y, n)
      \* column k sums xx[i] * yy[k+1-i]
      col[k \in 1..n] ==
        LET s[i \in 0..k] == IF i = 0 THEN 0 ELSE s[i-1] + xx[i] * yy[k+1-i]
        IN  s[k]
      c[k \in 0..n] == IF k = 0 THEN 0 ELSE (col[k] + c[k-1]) \div 256
  IN  Tuple([k \in 1..n |-> (col[k] + c[k-1]) % 256])

\* x >> 61, for x of n bytes (61 = 7 * 8 + 5)
Shr61(x) ==
  LET n == Len(x)
      at(i) == IF i <= n THEN x[i] ELSE 0
  IN  Tuple([j \in 1..n |-> (at(j + 7) \div 32) + (at(j + 8) % 32) * 8])

\* x & (2^61 - 1)
Low61(x) ==
  Tuple([j \in 1..Len(x) |->
           IF j <= 7 THEN x[j] ELSE IF j = 8 THEN x[j] % 32 ELSE 0])

\* _mersenne_prime = (1 << 61) - 1, as n bytes
MersennePrime(n) ==
  Tuple([j \in 1..n |-> IF j <= 7 THEN 255 ELSE IF j = 8 THEN 31 ELSE 0])

\* one fold at bit 61: x = hi * 2^61 + lo is congruent to hi + lo
Fold61(x) == AddN(Low61(x), Shr61(x), Len(x))

\* the last step: f <= 2^61 + 6 after the folds
ReduceOnce(f) ==
  IF Le(MersennePrime(Len(f)), f) THEN SubN(f, MersennePrime(Len(f)), Len(f))
  ELSE f

\* x % _mersenne_prime for x < 2^96: exact, by folding twice at bit 61
ModMersenne(x) == ReduceOnce(Fold61(Fold61(x)))

\* np.bitwise_and(x, np.uint64(_max_hash)), the result a uint64
MaskMaxHash(x) ==
  Tuple([j \in 1..U64Bytes |-> IF j <= U32Bytes THEN x[j] ELSE 0])

\* _max_hash = (1 << 32) - 1 as a uint64
MaxHash == Tuple([j \in 1..U64Bytes |-> IF j <= U32Bytes THEN 255 ELSE 0])


(***************************************************************************)
(* Module constants of minhash.py.                                         *)
(***************************************************************************)
\* _hash_range = (1 << 32), as a uint64
_hash_range == Tuple([j \in 1..U64Bytes |-> IF j = U32Bytes + 1 THEN 1 ELSE 0])

(***************************************************************************)
(* Inputs and collaborators.                                               *)
(***************************************************************************)
Seeds == {1, 2}

HashObjs == {"sha1", "md5"}

Items == {"a", "b"}

\* hashobj(b).digest()[:4], the bytes struct.unpack('<I', ...) reads
Digest4(hashobj, item) ==
  CASE hashobj = "sha1" /\ item = "a" -> <<134, 247, 228, 55>>
    [] hashobj = "sha1" /\ item = "b" -> <<233, 215, 31, 94>>
    [] hashobj = "md5"  /\ item = "a" -> <<12, 193, 117, 185>>
    [] hashobj = "md5"  /\ item = "b" -> <<146, 235, 95, 254>>

\* the pairs (randint(1, _mersenne_prime), randint(0, _mersenne_prime)) that
\* random.Random() seeded with `seed` yields, in order
RandomPairs(seed) ==
  CASE seed = 1 ->
         << << <<246, 177, 101, 34, 9, 235, 54, 18>>,   <<196, 187, 134, 195, 52, 241, 9, 4>> >>,
            << <<61, 52, 76, 65, 113, 253, 197, 3>>,    <<163, 216, 17, 115, 24, 68, 57, 30>> >>,
            << <<28, 204, 206, 166, 210, 206, 37, 12>>, <<22, 198, 233, 201, 75, 230, 111, 13>> >>,
            << <<141, 46, 7, 24, 144, 133, 156, 15>>,   <<178, 179, 244, 213, 163, 160, 242, 24>> >> >>
    [] seed = 2 ->
         << << <<116, 169, 190, 244, 115, 151, 158, 27>>, <<159, 38, 122, 14, 116, 134, 220, 5>> >>,
            << <<222, 43, 186, 21, 102, 200, 141, 11>>,   <<36, 65, 227, 213, 17, 68, 210, 10>> >>,
            << <<121, 135, 104, 188, 95, 4, 227, 25>>,    <<248, 7, 226, 78, 214, 240, 25, 16>> >>,
            << <<47, 40, 31, 155, 27, 127, 202, 6>>,      <<209, 91, 87, 155, 29, 121, 73, 2>> >> >>

\* hash values a caller supplies: 255 and 2^24, which compare one way as
\* numbers and the other way byte by byte from the low end, and 2^32, one
\* past _max_hash, which np.array(..., dtype=np.uint64) takes as it is
HvLow == Resize(<<255, 0, 0, 0>>, U64Bytes)

HvHigh == Resize(<<0, 0, 0, 1>>, U64Bytes)

HvOver == Resize(<<0, 0, 0, 0, 1>>, U64Bytes)

\* explicit `hashvalues` arguments
HashvalueInputs == { <<HvLow, HvHigh>>, <<HvHigh, HvLow>>, <<HvLow, HvOver>> }

(***************************************************************************)
(* Values.  An optional argument is <<>> (None) or <<v>>.  The             *)
(* `permutations` slot is unset (no attribute yet), None, or the 2 x n     *)
(* array <<a, b>> of multipliers and offsets.                              *)
(***************************************************************************)
None == <<>>

Some(v) == <<v>>

PermUnset == [st |-> "unset", rows |-> <<>>]

PermNone == [st |-> "None", rows |-> <<>>]

PermArray(rows) == [st |-> "array", rows |-> rows]

\* the heap cell of no object
NoObj == [cls |-> "none"]

\* A slot that was never assigned: reading it raises AttributeError.  An
\* object's record has a field for a slot once the slot is assigned; the
\* permutations slot of a MinHash under construction is PermUnset.
Unset(self, slot) ==
  \/ slot \notin DOMAIN self
  \/ slot = "permutations" /\ self.permutations.st = "unset"

\* the outcome of a call: how it ended, and the object it leaves or returns
Outcome(res, obj) == [res |-> res, obj |-> obj]

(***************************************************************************)
(* Name resolution.  A bare name in a method body is looked up in the      *)
(* function's locals, then in the module's globals, then in the builtins;  *)
(* the class body's names (the methods) are not in scope.                  *)
(***************************************************************************)
\* the names minhash.py binds at module level (lines 9-21)
ModuleGlobals ==
  {"random", "copy", "struct", "sha1", "np", "hashvalue_byte_size",
   "_mersenne_prime", "_max_hash", "_hash_range", "MinHash"}

(***************************************************************************)
(* numpy helpers.                                                          *)
(***************************************************************************)
\* min of two uint64
Min64(x, y) == IF Lt(y, x) THEN y ELSE x

\* np.minimum(x, y) of two 1-d arrays, with numpy's broadcasting: equal
\* lengths pair up, a length-1 array is stretched, anything else raises
NpMinimum(x, y) ==
  IF Len(x) = Len(y)
  THEN [res |-> "ok", val |-> Tuple([i \in 1..Len(x) |-> Min64(x[i], y[i])])]
  ELSE IF Len(x) = 1
  THEN [res |-> "ok", val |-> Tuple([i \in 1..Len(y) |-> Min64(x[1], y[i])])]
  ELSE IF Len(y) = 1
  THEN [res |-> "ok", val |-> Tuple([i \in 1..Len(x) |-> Min64(x[i], y[1])])]
  ELSE [res |-> "ValueError", val |-> <<>>]

\* np.minimum.reduce(list of arrays of one length)
RECURSIVE NpMinimumReduce(_)
NpMinimumReduce(arrays) ==
  IF Len(arrays) = 1 THEN arrays[1]
  ELSE NpMinimum(arrays[1], NpMinimumReduce(Tail(arrays))).val

\* (a * hv + b) in uint64 arithmetic, % _mersenne_prime, & _max_hash
PermutedHash(a, hv, b) ==
  MaskMaxHash(ModMersenne(AddN(MulN(a, hv, U64Bytes), b, U64Bytes)))

(***************************************************************************)
(* MinHash: the methods, as functions of the object's state.               *)
(***************************************************************************)
__len__(self) == Len(self.hashvalues)

_init_hashvalues(num_perm) ==
  Tuple([i \in 1..num_perm |-> MulN(FromNat(1, U64Bytes), MaxHash, U64Bytes)])

\* np.array(object, dtype, copy): the result is `object` itself, and no new
\* array, only when object is an array of that dtype and copy is False
NpArrayReturnsArgument(is_array, copy) == is_array /\ ~copy

\* mutant of _parse_hashvalues_aliases: np.asarray, or np.array(copy=False)
_parse_hashvalues_asarray(is_array) == NpArrayReturnsArgument(is_array, FALSE)

\* whether the array _parse_hashvalues returns is the uint64 array it was
\* given: np.array is called with copy at its default, True
_parse_hashvalues_aliases(is_array) == NpArrayReturnsArgument(is_array, TRUE)

_parse_hashvalues(hashvalues) ==
  Tuple([i \in 1..Len(hashvalues) |-> Resize(hashvalues[i], U64Bytes)])

\* the 2 x num_perm array; the generator is seeded with self.seed
generate_permutations(self, seed, num_perm) ==
  LET pairs == RandomPairs(self.seed)
  IN  << Tuple([i \in 1..num_perm |-> pairs[i][1]]),
         Tuple([i \in 1..num_perm |-> pairs[i][2]]) >>

\* the length check reads the permutations the object holds already
load_permutations(self, permutations) ==
  IF Unset(self, "permutations") THEN Outcome("AttributeError", self)
  ELSE IF self.permutations.st = "None" THEN Outcome("TypeError", self)
  ELSE IF __len__(self) # Len(self.permutations.rows[1])
  THEN Outcome("ValueError", self)
  ELSE Outcome("ok", [self EXCEPT !.permutations = PermArray(permutations),
                                  !.finalized = FALSE])

\* what the unbound call at line 63 would go on to do, were the name bound
InitGenerated(self, seed, num_perm) ==
  load_permutations(self, generate_permutations(self, seed, num_perm))

\* object.__new__(cls): an object none of whose slots is assigned
object__new__(cls) == [cls |-> cls]

\* mutant of __init__: the finalized branch assigns nothing to permutations
__init___unassigned(self, num_perm, seed, hashobj, hashvalues, permutations, finalized) ==
  IF Lt(_hash_range, FromNat(num_perm, U64Bytes))
  THEN Outcome("ValueError", self)
  ELSE
    LET assigned == [cls         |-> self.cls,
                     seed        |-> seed,
                     hashobj     |-> hashobj,
                     finalized   |-> finalized,
                     hashvalues  |-> IF hashvalues # None
                                     THEN _parse_hashvalues(hashvalues[1])
                                     ELSE _init_hashvalues(num_perm),
                     permutations |-> IF Unset(self, "permutations")
                                      THEN PermUnset
                                      ELSE self.permutations]
    IN  IF finalized
        THEN IF permutations # None
             THEN Outcome("ValueError", assigned)
             ELSE Outcome("ok", assigned)
        ELSE IF permutations # None
        THEN load_permutations(assigned, permutations[1])
        ELSE IF "generate_permutations" \notin ModuleGlobals
        THEN Outcome("NameError", assigned)
        ELSE InitGenerated(assigned, seed, num_perm)

\* The method, on the object it is given: a new one (see MinHash) or, from
\* __setstate__, one that exists.  seed, hashobj, finalized and hashvalues
\* are assigned before the permutations are looked at, and stay assigned
\* when the call raises there; the permutations slot is then as it was.
__init__(self, num_perm, seed, hashobj, hashvalues, permutations, finalized) ==
  IF Lt(_hash_range, FromNat(num_perm, U64Bytes))
  THEN Outcome("ValueError", self)
  ELSE
    LET assigned == [cls         |-> self.cls,
                     seed        |-> seed,
                     hashobj     |-> hashobj,
                     finalized   |-> finalized,
                     hashvalues  |-> IF hashvalues # None
                                     THEN _parse_hashvalues(hashvalues[1])
                                     ELSE _init_hashvalues(num_perm),
                     permutations |-> IF Unset(self, "permutations")
                                      THEN PermUnset
                                      ELSE self.permutations]
    IN  IF finalized
        THEN IF permutations # None
             THEN Outcome("ValueError", assigned)
             ELSE Outcome("ok", [assigned EXCEPT !.permutations = PermNone])
        ELSE IF permutations # None
        THEN load_permutations(assigned, permutations[1])
        ELSE IF "generate_permutations" \notin ModuleGlobals
        THEN Outcome("NameError", assigned)
        ELSE InitGenerated(assigned, seed, num_perm)

\* MinHash(...), and cls(...) in the class methods: __init__ on a new
\* object, which the caller receives only when __init__ returns
MinHash(num_perm, seed, hashobj, hashvalues, permutations, finalized) ==
  LET r == __init__(object__new__("MinHash"), num_perm, seed, hashobj,
                    hashvalues, permutations, finalized)
  IN  IF r.res = "ok" THEN r ELSE Outcome(r.res, NoObj)

\* update, as it computes the permuted hash values of b
PermutedHashes(self, b) ==
  LET hv == Digest4(self.hashobj, b)
      a  == self.permutations.rows[1]
      bb == self.permutations.rows[2]
  IN  Tuple([i \in 1..Len(a) |-> PermutedHash(a[i], hv, bb[i])])

\* mutant of update: permutations that are not held are generated from the
\* seed, and the permuted values are assigned without np.minimum
update_overwrite(self, b) ==
  IF self.permutations.st = "unset" THEN Outcome("AttributeError", self)
  ELSE
    LET held == IF self.permutations.st = "None"
                THEN PermArray(generate_permutations(self, self.seed,
                                                     __len__(self)))
                ELSE self.permutations
    IN  Outcome("ok",
                [self EXCEPT !.hashvalues =
                    PermutedHashes([self EXCEPT !.permutations = held], b)])

\* mutant of update: no check that permutations are held, so that
\* `a, b = self.permutations` is what fails on None
update_unguarded(self, b) ==
  IF self.permutations.st = "unset" THEN Outcome("AttributeError", self)
  ELSE IF self.permutations.st = "None" THEN Outcome("TypeError", self)
  ELSE
    LET m == NpMinimum(PermutedHashes(self, b), self.hashvalues)
    IN  IF m.res = "ok"
        THEN Outcome("ok", [self EXCEPT !.hashvalues = m.val])
        ELSE Outcome(m.res, self)

update(self, b) ==
  IF self.permutations.st = "unset" THEN Outcome("AttributeError", self)
  ELSE IF self.permutations.st = "None" THEN Outcome("ValueError", self)
  ELSE
    LET m == NpMinimum(PermutedHashes(self, b), self.hashvalues)
    IN  IF m.res = "ok"
        THEN Outcome("ok", [self EXCEPT !.hashvalues = m.val])
        ELSE Outcome(m.res, self)

\* both slots are assigned, whether or not they were before
finalize(self) ==
  Outcome("ok", [cls          |-> self.cls,
                 seed         |-> self.seed,
                 hashobj      |-> self.hashobj,
                 finalized    |-> TRUE,
                 hashvalues   |-> self.hashvalues,
                 permutations |-> PermNone])

clear(self) ==
  Outcome("ok", [self EXCEPT !.hashvalues = _init_hashvalues(__len__(self))])

\* mutant of merge: the lengths are not compared, and np.minimum broadcasts
\* an array of one value against a longer one
merge_any_length(self, other) ==
  IF other.seed # self.seed THEN Outcome("ValueError", self)
  ELSE LET m == NpMinimum(other.hashvalues, self.hashvalues)
       IN  IF m.res = "ok"
           THEN Outcome("ok", [self EXCEPT !.hashvalues = m.val])
           ELSE Outcome(m.res, self)

\* mutant of merge: the seeds are not compared
merge_any_seed(self, other) ==
  IF __len__(self) # __len__(other) THEN Outcome("ValueError", self)
  ELSE Outcome("ok", [self EXCEPT !.hashvalues =
                         NpMinimum(other.hashvalues, self.hashvalues).val])

merge(self, other) ==
  IF other.seed # self.seed THEN Outcome("ValueError", self)
  ELSE IF __len__(self) # __len__(other) THEN Outcome("ValueError", self)
  ELSE Outcome("ok", [self EXCEPT !.hashvalues =
                         NpMinimum(other.hashvalues, self.hashvalues).val])

\* cls(num_perm=num_perm, seed=seed, hashvalues=hashvalues): hashobj,
\* permutations and finalized take their defaults
union(mhs) ==
  IF Len(mhs) < 2 THEN Outcome("ValueError", NoObj)
  ELSE
    LET num_perm == __len__(mhs[1])
        seed     == mhs[1].seed
    IN  IF \/ \E k \in 1..Len(mhs) : seed # mhs[k].seed
           \/ \E k \in 1..Len(mhs) : num_perm # __len__(mhs[k])
        THEN Outcome("ValueError", NoObj)
        ELSE MinHash(num_perm, seed, "sha1",
                     Some(NpMinimumReduce(Tuple([k \in 1..Len(mhs) |-> mhs[k].hashvalues]))),
                     None, FALSE)

\* np.any(self.hashvalues != _max_hash) is False
is_empty(self) == \A i \in 1..__len__(self) : self.hashvalues[i] = MaxHash

\* copy.copy(self.hashvalues): a new array of the same values
digest(self) == Tuple([i \in 1..__len__(self) |-> self.hashvalues[i]])

\* the default of num_perm in __init__'s signature
DefaultNumPerm == 128

\* MinHash(seed=self.seed, hashvalues=self.digest(),
\*         permutations=self.permutations): num_perm, hashobj and finalized
\* take their defaults
copy(self) ==
  IF Unset(self, "permutations") THEN Outcome("AttributeError", NoObj)
  ELSE MinHash(DefaultNumPerm, self.seed, "sha1", Some(digest(self)),
               IF self.permutations.st = "None" THEN None
               ELSE Some(self.permutations.rows),
               FALSE)

(***************************************************************************)
(* The binary codec: struct formats 'q', 'i', 'I' and '?'.                 *)
(***************************************************************************)
\* struct.calcsize('q')
seed_size == 8
\* struct.calcsize('i')
length_size == 4
\* struct.calcsize('I')
hashvalue_size == 4
\* struct.calcsize('?')
finalized_size == 1

bytesize(self) ==
  seed_size + length_size + __len__(self) * hashvalue_size + finalized_size

\* 'q' and 'i' of an integer in 0 .. 2^31 - 1
PackInt(v, size) == FromNat(v, size)

\* 'q' and 'i' read back; the fields the model packs are below 2^31
UnpackInt(bytes) ==
  bytes[1] + 256 * bytes[2] + 65536 * bytes[3] + 16777216 * bytes[4]

\* 'I' takes 0 .. 2^32 - 1 and nothing else
FitsU32(x) == \A j \in (hashvalue_size + 1)..Len(x) : x[j] = 0

PackBool(b) == << IF b THEN 1 ELSE 0 >>

\* mutant of UnpackBool: the flag is read inverted
UnpackBool_inverted(byte) == byte = 0

UnpackBool(byte) == byte # 0

\* struct.pack("qi%dI?" % len(self), seed, len(self), *hashvalues, finalized)
Pack(self) ==
  LET n == __len__(self)
  IN  PackInt(self.seed, seed_size)
      \o PackInt(n, length_size)
      \o Tuple([j \in 1..(n * hashvalue_size) |->
                  self.hashvalues[((j - 1) \div hashvalue_size) + 1]
                                 [((j - 1) % hashvalue_size) + 1]])
      \o PackBool(self.finalized)

\* struct.pack_into clears the bytes of the packed region, then writes the
\* fields in order and stops at the first one that does not fit its format:
\* the fields before it are written, the rest of the region is zero, and
\* the bytes after the region are untouched
PackInto(self, buf) ==
  LET packed == Pack(self)
      n      == __len__(self)
      fits   == {i \in 0..n : \A k \in 1..i : FitsU32(self.hashvalues[k])}
      first  == CHOOSE i \in fits : \A k \in fits : k <= i
      done   == IF first = n THEN Len(packed)
                ELSE seed_size + length_size + first * hashvalue_size
  IN  [res |-> IF first = n THEN "ok" ELSE "struct.error",
       buf |-> Tuple([j \in 1..Len(buf) |->
                        IF j <= done THEN packed[j]
                        ELSE IF j <= Len(packed) THEN 0
                        ELSE buf[j]])]

\* mutant of serialize: no check of the buffer's size, so that pack_into is
\* what fails on a buffer too small, before it writes
serialize_unchecked(self, buf) ==
  IF Unset(self, "finalized") THEN [res |-> "AttributeError", buf |-> buf]
  ELSE IF Len(buf) < Len(Pack(self))
  THEN [res |-> "struct.error", buf |-> buf]
  ELSE IF \E i \in 1..__len__(self) : ~FitsU32(self.hashvalues[i])
  THEN PackInto(self, buf)
  ELSE LET packed == Pack(self)
       IN  [res |-> "ok",
            buf |-> Tuple([j \in 1..Len(buf) |->
                             IF j <= Len(packed) THEN packed[j] ELSE buf[j]])]

\* the outcome and the buffer as the call leaves it
serialize(self, buf) ==
  IF Len(buf) < bytesize(self) THEN [res |-> "ValueError", buf |-> buf]
  ELSE IF Unset(self, "finalized") THEN [res |-> "AttributeError", buf |-> buf]
  ELSE PackInto(self, buf)

\* The except TypeError branches retry through Python 2's buffer();
\* unpack_from raises no TypeError on bytes or a bytearray.
deserialize(buf) ==
  LET offset == seed_size + length_size
  IN
  IF Len(buf) < offset THEN Outcome("struct.error", NoObj)
  ELSE
    LET seed     == UnpackInt(SubSeq(buf, 1, seed_size))
        num_perm == UnpackInt(SubSeq(buf, seed_size + 1, offset))
        offset2  == offset + num_perm * hashvalue_size
    IN
    IF Len(buf) < offset2 THEN Outcome("struct.error", NoObj)
    ELSE
      LET hashvalues ==
            Tuple([i \in 1..num_perm |->
                     SubSeq(buf, offset + (i - 1) * hashvalue_size + 1,
                                 offset + i * hashvalue_size)])
          finalized ==
            IF Len(buf) < offset2 + finalized_size THEN FALSE
            ELSE UnpackBool(buf[offset2 + 1])
      IN  MinHash(num_perm, seed, "sha1", Some(hashvalues), None, finalized)

\* The same unpacking, then self.__init__(num_perm=num_perm, seed=seed,
\* hashvalues=hashvalues, finalized=finalized) on the object itself: hashobj
\* takes its default.  struct.error leaves the object as it was.
__setstate__(self, buf) ==
  LET offset == seed_size + length_size
  IN
  IF Len(buf) < offset THEN Outcome("struct.error", self)
  ELSE
    LET seed     == UnpackInt(SubSeq(buf, 1, seed_size))
        num_perm == UnpackInt(SubSeq(buf, seed_size + 1, offset))
        offset2  == offset + num_perm * hashvalue_size
    IN
    IF Len(buf) < offset2 THEN Outcome("struct.error", self)
    ELSE
      LET hashvalues ==
            Tuple([i \in 1..num_perm |->
                     SubSeq(buf, offset + (i - 1) * hashvalue_size + 1,
                                 offset + i * hashvalue_size)])
          finalized ==
            IF Len(buf) < offset2 + finalized_size THEN FALSE
            ELSE UnpackBool(buf[offset2 + 1])
      IN  __init__(self, num_perm, seed, "sha1", Some(hashvalues), None,
                   finalized)

(***************************************************************************)
(* ImmutableMinHash.  Its __slots__ repeat seed, hashvalues and hashobj;   *)
(* the slots permutations and finalized are inherited from MinHash and     *)
(* stay unassigned.  A Python value handed to _initialize_slots is tagged  *)
(* with its type: an array or tuple of integers, or a str.                 *)
(***************************************************************************)
PySequence(v) == [type |-> "sequence", val |-> v]

PyStr(v) == [type |-> "str", val |-> v]

\* the str 'sha1', which is not the function hashlib.sha1 ("sha1")
Sha1Str == "'sha1'"

\* np.array(x, dtype=np.uint64): of a str it is int(x), a ValueError unless
\* the str is a numeral
NpArrayUint64(x) ==
  IF x.type = "str" THEN [res |-> "ValueError", val |-> <<>>]
  ELSE [res |-> "ok", val |-> _parse_hashvalues(x.val)]

\* The three slots are assigned on self in the order seed, hashvalues,
\* hashobj: when np.array raises, seed is assigned and nothing else.  The
\* inherited slots finalized and permutations are left as they are.
_initialize_slots(self, seed, hashvalues, hashobj) ==
  LET parsed == NpArrayUint64(hashvalues)
  IN  IF parsed.res # "ok"
      THEN Outcome(parsed.res,
                   [f \in DOMAIN self \cup {"seed"} |->
                      IF f = "seed" THEN seed ELSE self[f]])
      ELSE Outcome("ok",
                   IF Unset(self, "finalized")
                   THEN [cls        |-> self.cls,
                         seed       |-> seed,
                         hashobj    |-> hashobj,
                         hashvalues |-> parsed.val]
                   ELSE [cls          |-> self.cls,
                         seed         |-> seed,
                         hashobj      |-> hashobj,
                         hashvalues   |-> parsed.val,
                         finalized    |-> self.finalized,
                         permutations |-> self.permutations])

\* a new object, which the caller receives only when the call on it returns
NewObject(r) == IF r.res = "ok" THEN r ELSE Outcome(r.res, NoObj)

\* ImmutableMinHash(minhash)
Immutable__init__(minhash) ==
  NewObject(_initialize_slots(object__new__("ImmutableMinHash"), minhash.seed,
                              PySequence(minhash.hashvalues), minhash.hashobj))

\* the names of __slots__
Immutable__slots__ == <<"seed", "hashvalues", "hashobj">>

\* imh._initialize_slots(*self.__slots__): the arguments are the three names
Immutable_copy(self) ==
  NewObject(_initialize_slots(object__new__("ImmutableMinHash"),
                              PyStr(Immutable__slots__[1]),
                              PyStr(Immutable__slots__[2]),
                              PyStr(Immutable__slots__[3])))

Immutable_update(self, b) == Outcome("TypeError", self)

Immutable_merge(self, other) == Outcome("TypeError", self)

\* the two-field header and the hash values; bytes after them are not read
Immutable_deserialize(buf) ==
  LET offset == seed_size + length_size
  IN
  IF Len(buf) < offset THEN Outcome("struct.error", NoObj)
  ELSE
    LET seed     == UnpackInt(SubSeq(buf, 1, seed_size))
        num_perm == UnpackInt(SubSeq(buf, seed_size + 1, offset))
    IN
    IF Len(buf) < offset + num_perm * hashvalue_size
    THEN Outcome("struct.error", NoObj)
    ELSE NewObject(_initialize_slots(
           object__new__("ImmutableMinHash"),
           seed,
           PySequence(Tuple([i \in 1..num_perm |->
                        SubSeq(buf, offset + (i - 1) * hashvalue_size + 1,
                                    offset + i * hashvalue_size)])),
           Sha1Str))

\* the same unpacking, then _initialize_slots on the object itself
Immutable__setstate__(self, buf) ==
  LET offset == seed_size + length_size
  IN
  IF Len(buf) < offset THEN Outcome("struct.error", self)
  ELSE
    LET seed     == UnpackInt(SubSeq(buf, 1, seed_size))
        num_perm == UnpackInt(SubSeq(buf, seed_size + 1, offset))
    IN
    IF Len(buf) < offset + num_perm * hashvalue_size
    THEN Outcome("struct.error", self)
    ELSE _initialize_slots(
           self,
           seed,
           PySequence(Tuple([i \in 1..num_perm |->
                        SubSeq(buf, offset + (i - 1) * hashvalue_size + 1,
                                    offset + i * hashvalue_size)])),
           Sha1Str)

Immutable_union(mhs) ==
  IF Len(mhs) < 2 THEN Outcome("ValueError", NoObj)
  ELSE
    LET num_perm == __len__(mhs[1])
        seed     == mhs[1].seed
        hashobj  == mhs[1].hashobj
    IN  IF \E k \in 1..Len(mhs) :
             <<seed, num_perm, hashobj>>
               # <<mhs[k].seed, __len__(mhs[k]), mhs[k].hashobj>>
        THEN Outcome("ValueError", NoObj)
        ELSE NewObject(_initialize_slots(
               object__new__("ImmutableMinHash"),
               seed,
               PySequence(NpMinimumReduce(Tuple([k \in 1..Len(mhs) |-> mhs[k].hashvalues]))),
               hashobj))

(***************************************************************************)
(* State.                                                                  *)
(*   heap  the MinHash objects the caller holds, by id                     *)
(*   buf   the caller's byte buffer                                        *)
(*   last  the last call: its name, its arguments, how it ended, and the   *)
(*         id of the object it returned (0: none)                          *)
(*   shared  the pairs {i, j} of objects whose hashvalues slots hold one   *)
(*         and the same numpy array                                        *)
(***************************************************************************)
VARIABLES heap, buf, last, shared

vars == <<heap, buf, last, shared>>

\* the caller holds two references: operations take a receiver and, merge,
\* one other object
Ids == 1..2

Allocated == {i \in Ids : heap[i] # NoObj}

HasFree == Allocated # Ids

\* the objects whose class is MinHash itself, and the ImmutableMinHash ones
MinHashes == {i \in Allocated : heap[i].cls = "MinHash"}

Views == {i \in Allocated : heap[i].cls = "ImmutableMinHash"}

FreeId == CHOOSE i \in Ids \ Allocated : \A j \in Ids \ Allocated : i <= j

Call(op, args, res, ret) == [op |-> op, args |-> args, res |-> res, ret |-> ret]

\* the permutations argument a caller copies from a MinHash of seed 1
PermutationInputs ==
  { generate_permutations([seed |-> 1], 1, n) : n \in 1..MaxPerm }

\* the defaults of __init__'s signature
IsDefault(c, field) ==
  CASE field = "seed"         -> c.seed = 1
    [] field = "hashobj"      -> c.hashobj = "sha1"
    [] field = "hashvalues"   -> c.hashvalues = None
    [] field = "permutations" -> c.permutations = None

\* argument lists of __init__: num_perm and finalized vary freely, and at
\* most one of the other arguments departs from its default
ConstructInputs ==
  { c \in [num_perm     : 1..MaxPerm,
           seed         : Seeds,
           hashobj      : HashObjs,
           hashvalues   : {None} \cup {Some(h) : h \in HashvalueInputs},
           permutations : {None} \cup {Some(q) : q \in PermutationInputs},
           finalized    : BOOLEAN] :
      Cardinality({f \in {"seed", "hashobj", "hashvalues", "permutations"} :
                     ~IsDefault(c, f)}) <= 1 }

\* a call that returns a new object needs a free cell to hold it
Returns(r, op, args) ==
  /\ r.res = "ok" => HasFree
  /\ heap' = IF r.res = "ok" THEN [heap EXCEPT ![FreeId] = r.obj] ELSE heap
  /\ last' = Call(op, args, r.res, IF r.res = "ok" THEN FreeId ELSE 0)

\* a call on heap[i] that leaves the object as r.obj
Mutates(i, r, op, args) ==
  /\ heap' = [heap EXCEPT ![i] = r.obj]
  /\ last' = Call(op, args, r.res, 0)

\* self.hashvalues = <a new array>: the slot of heap[i] no longer holds an
\* array another object holds
Rebound(i) == {p \in shared : i \notin p}

\* the pairs a new object makes when its hashvalues slot holds heap[i]'s array
Sharing(i, new) ==
  {{j, new} : j \in {i} \cup {k \in Ids : {i, k} \in shared}}

\* the caller constructs while it has room for one more object
Construct(c) ==
  /\ HasFree
  /\ Returns(MinHash(c.num_perm, c.seed, c.hashobj, c.hashvalues,
                     c.permutations, c.finalized), "__init__", c)
  /\ UNCHANGED <<buf, shared>>

Update(i, b) ==
  /\ Mutates(i, update(heap[i], b), "update", [self |-> i, b |-> b])
  /\ shared' = IF update(heap[i], b).res = "ok" THEN Rebound(i) ELSE shared
  /\ UNCHANGED buf

Finalize(i) ==
  /\ Mutates(i, finalize(heap[i]), "finalize", [self |-> i])
  /\ UNCHANGED <<buf, shared>>

Clear(i) ==
  /\ Mutates(i, clear(heap[i]), "clear", [self |-> i])
  /\ shared' = Rebound(i)
  /\ UNCHANGED buf

Merge(i, j) ==
  /\ Mutates(i, merge(heap[i], heap[j]), "merge", [self |-> i, other |-> j])
  /\ shared' = IF merge(heap[i], heap[j]).res = "ok" THEN Rebound(i) ELSE shared
  /\ UNCHANGED buf

Union(ids) ==
  /\ Returns(union(Tuple([k \in 1..Len(ids) |-> heap[ids[k]]])), "union",
             [mhs |-> ids])
  /\ UNCHANGED <<buf, shared>>

\* buf = bytearray(size); heap[i].serialize(buf)
Serialize(i, size) ==
  LET r == serialize(heap[i], Zero(size))
  IN  /\ buf' = r.buf
      /\ last' = Call("serialize", [self |-> i, size |-> size], r.res, 0)
      /\ UNCHANGED <<heap, shared>>

\* the lengths a caller cuts the buffer to: around the end of the header
\* and around the end of the buffer
DecodeCuts ==
  {k \in 0..Len(buf) :
     \/ k \in {0, seed_size + length_size - 1, seed_size + length_size}
     \/ k >= Len(buf) - 2}

\* MinHash.deserialize(bytes(buf[:k]))
Deserialize(k) ==
  /\ Returns(deserialize(SubSeq(buf, 1, k)), "deserialize", [k |-> k])
  /\ UNCHANGED <<buf, shared>>

\* The pickled states a caller hands to __setstate__: a finalized sketch of
\* seed 2 and one hash value, a finalized one of seed 1 and two, one of
\* seed 1 whose flag is False, the same without the flag byte, and bytes
\* that end inside the header.
StateInputs ==
  LET one  == Pack([seed |-> 2, hashvalues |-> <<HvLow>>, finalized |-> TRUE])
      two  == Pack([seed |-> 1, hashvalues |-> <<HvLow, HvHigh>>,
                    finalized |-> TRUE])
      open == Pack([seed |-> 1, hashvalues |-> <<HvHigh>>, finalized |-> FALSE])
  IN  {one, two, open, SubSeq(open, 1, Len(open) - finalized_size),
       SubSeq(one, 1, seed_size + length_size - 1)}

\* heap[i].__setstate__(state) on a MinHash.  __init__ assigns a new array
\* to the hashvalues slot unless it raises at its first check, which a
\* length read from an 'i' field never fails.
SetState(i, state) ==
  LET r == __setstate__(heap[i], state)
  IN  /\ Mutates(i, r, "__setstate__", [self |-> i, buf |-> state])
      /\ shared' = IF r.res = "struct.error" THEN shared ELSE Rebound(i)
      /\ UNCHANGED buf

\* heap[i].copy() on a MinHash
Copy(i) ==
  /\ Returns(copy(heap[i]), "copy", [self |-> i])
  /\ UNCHANGED <<buf, shared>>

\* heap[i].generate_permutations(seed, num_perm): the array is returned to
\* the caller and nothing is assigned
GeneratePermutations(i, seed, num_perm) ==
  /\ last' = Call("generate_permutations",
                  [self |-> i, seed |-> seed, num_perm |-> num_perm], "ok", 0)
  /\ UNCHANGED <<heap, buf, shared>>

LoadPermutations(i, permutations) ==
  /\ Mutates(i, load_permutations(heap[i], permutations), "load_permutations",
             [self |-> i, permutations |-> permutations])
  /\ UNCHANGED <<buf, shared>>

\* ImmutableMinHash(heap[i])
NewImmutable(i) ==
  /\ Returns(Immutable__init__(heap[i]), "ImmutableMinHash.__init__",
             [minhash |-> i])
  /\ shared' = IF Immutable__init__(heap[i]).res = "ok"
                  /\ _parse_hashvalues_aliases(TRUE)
               THEN shared \cup Sharing(i, FreeId)
               ELSE shared
  /\ UNCHANGED buf

ImmutableCopy(i) ==
  /\ Returns(Immutable_copy(heap[i]), "ImmutableMinHash.copy", [self |-> i])
  /\ UNCHANGED <<buf, shared>>

ImmutableUpdate(i, b) ==
  /\ Mutates(i, Immutable_update(heap[i], b), "ImmutableMinHash.update",
             [self |-> i, b |-> b])
  /\ UNCHANGED <<buf, shared>>

ImmutableMerge(i, j) ==
  /\ Mutates(i, Immutable_merge(heap[i], heap[j]), "ImmutableMinHash.merge",
             [self |-> i, other |-> j])
  /\ UNCHANGED <<buf, shared>>

\* ImmutableMinHash.deserialize(bytes(buf[:k]))
ImmutableDeserialize(k) ==
  /\ Returns(Immutable_deserialize(SubSeq(buf, 1, k)),
             "ImmutableMinHash.deserialize", [k |-> k])
  /\ UNCHANGED <<buf, shared>>

\* heap[i].__setstate__(state) on an ImmutableMinHash
ImmutableSetState(i, state) ==
  LET r == Immutable__setstate__(heap[i], state)
  IN  /\ Mutates(i, r, "ImmutableMinHash.__setstate__",
                 [self |-> i, buf |-> state])
      /\ shared' = IF r.res = "ok" THEN Rebound(i) ELSE shared
      /\ UNCHANGED buf

ImmutableUnion(ids) ==
  /\ Returns(Immutable_union(Tuple([k \in 1..Len(ids) |-> heap[ids[k]]])),
             "ImmutableMinHash.union", [mhs |-> ids])
  /\ UNCHANGED <<buf, shared>>

Init ==
  /\ heap = [i \in Ids |-> NoObj]
  /\ buf = <<>>
  /\ last = Call("none", <<>>, "ok", 0)
  /\ shared = {}

\* update, merge and copy run the method of the object's class; clear,
\* finalize, serialize, generate_permutations and load_permutations are
\* MinHash's for both classes
Next ==
  \/ \E c \in ConstructInputs : Construct(c)
  \/ \E i \in MinHashes, b \in Items : Update(i, b)
  \/ \E i \in Allocated : Finalize(i)
  \/ \E i \in Allocated : Clear(i)
  \/ \E i \in MinHashes, j \in Allocated : Merge(i, j)
  \/ \E n \in 0..MaxUnion : \E ids \in [1..n -> Allocated] : Union(ids)
  \/ \E i \in Allocated, d \in {-1, 0, 1} : Serialize(i, bytesize(heap[i]) - d)
  \/ \E k \in DecodeCuts : Deserialize(k)
  \/ \E i \in MinHashes : Copy(i)
  \/ \E i \in Allocated, seed \in Seeds :
        GeneratePermutations(i, seed, __len__(heap[i]))
  \/ \E i \in Allocated, q \in PermutationInputs : LoadPermutations(i, q)
  \/ \E i \in Allocated : NewImmutable(i)
  \/ \E i \in Views : ImmutableCopy(i)
  \/ \E i \in Views, b \in Items : ImmutableUpdate(i, b)
  \/ \E i \in Views, j \in Allocated : ImmutableMerge(i, j)
  \/ \E k \in DecodeCuts : ImmutableDeserialize(k)
  \/ \E n \in 0..MaxUnion : \E ids \in [1..n -> Allocated] : ImmutableUnion(ids)

Spec == Init /\ [][Next]_vars

(***************************************************************************)
(* Unpickling.  __setstate__ re-initialises an object that exists, of      *)
(* either class, from bytes the caller holds.  SpecState runs it among the *)
(* calls that change an object in place, on the sketches the constructor   *)
(* returns and on their views; the calls through the byte buffer are       *)
(* Spec's.                                                                 *)
(***************************************************************************)
NextState ==
  \/ \E c \in ConstructInputs : Construct(c)
  \/ \E i \in MinHashes, b \in Items : Update(i, b)
  \/ \E i \in Allocated : Finalize(i)
  \/ \E i \in Allocated : Clear(i)
  \/ \E i \in MinHashes, j \in Allocated : Merge(i, j)
  \/ \E i \in MinHashes, state \in StateInputs : SetState(i, state)
  \/ \E i \in Allocated, seed \in Seeds :
        GeneratePermutations(i, seed, __len__(heap[i]))
  \/ \E i \in Allocated, q \in PermutationInputs : LoadPermutations(i, q)
  \/ \E i \in Allocated : NewImmutable(i)
  \/ \E i \in Views, b \in Items : ImmutableUpdate(i, b)
  \/ \E i \in Views, j \in Allocated : ImmutableMerge(i, j)
  \/ \E i \in Views, state \in StateInputs : ImmutableSetState(i, state)

SpecState == Init /\ [][NextState]_vars

(***************************************************************************)
(* Properties.                                                             *)
(***************************************************************************)
\* the id a call was made on, and the result of the spec's errors in Python:
\* ConfigError, StateError and SizeError are all raised as ValueError
Self == last.args.self

\* (a * hv + b) as the exact integer (no wrap: the width holds any product
\* of a 61-bit and a 32-bit number plus a 61-bit one), then % and &
ExactPermutedHash(a, hv, b) ==
  MaskMaxHash(ModMersenne(AddN(MulN(a, hv, WideBytes), b, WideBytes)))

\* v is the smaller of x and y
IsMinOf(v, x, y) == v \in {x, y} /\ Le(v, x) /\ Le(v, y)

\* C1: MinHash(num_perm=n, seed=s), with no hashvalues, no permutations and
\* finalized False, returns a MinHash of n hash values all 2^32 - 1, holding
\* the n permutation pairs generated from s, and not finalized.
C1_ConstructYieldsLive ==
  (/\ last.op = "__init__"
   /\ last.args.hashvalues = None
   /\ last.args.permutations = None
   /\ ~last.args.finalized)
  => /\ last.res = "ok"
     /\ LET o == heap[last.ret]
            n == last.args.num_perm
        IN  /\ o.hashvalues = [i \in 1..n |-> MaxHash]
            /\ o.permutations =
                 PermArray(<< [i \in 1..n |-> RandomPairs(last.args.seed)[i][1]],
                              [i \in 1..n |-> RandomPairs(last.args.seed)[i][2]] >>)
            /\ ~o.finalized

C4_UpdateRejectedWithoutPermutations ==
  [][ (last'.op = "update" /\ heap[last'.args.self].permutations.st = "None")
      => /\ last'.res = "ValueError"
         /\ heap'[last'.args.self] = heap[last'.args.self] ]_vars

\* an update was rejected on a finalized MinHash that holds a hash value
\* below 2^32 - 1
C4_Witness ==
  /\ last.op = "update"
  /\ last.res = "ValueError"
  /\ heap[Self].finalized
  /\ heap[Self].permutations = PermNone
  /\ \E k \in 1..Len(heap[Self].hashvalues) : Lt(heap[Self].hashvalues[k], MaxHash)

\* C5: merge(other) raises ValueError (the spec's ConfigError) and changes
\* nothing when the seeds or the slot counts differ; otherwise every slot of
\* self becomes the smaller of self's and other's.  Either way no other
\* object changes, and self keeps its seed, permutations and finalized flag.
C5_MergeFrame ==
  [][ last'.op = "merge"
      => LET i == last'.args.self
             j == last'.args.other
             s == heap[i]
             o == heap[j]
         IN  /\ \A x \in Ids \ {i} : heap'[x] = heap[x]
             /\ IF s.seed # o.seed \/ Len(s.hashvalues) # Len(o.hashvalues)
                THEN last'.res = "ValueError" /\ heap'[i] = s
                ELSE /\ last'.res = "ok"
                     /\ Len(heap'[i].hashvalues) = Len(s.hashvalues)
                     /\ \A k \in 1..Len(s.hashvalues) :
                           IsMinOf(heap'[i].hashvalues[k],
                                   s.hashvalues[k], o.hashvalues[k])
                     /\ heap'[i] = [s EXCEPT !.hashvalues = heap'[i].hashvalues] ]_vars

\* a merge of two objects took one slot from each: <<2^24, 255>> merged with
\* <<255, 2^24>>
C5_Witness ==
  /\ last.op = "merge"
  /\ last.res = "ok"
  /\ last.args.self # last.args.other
  /\ heap[Self].hashvalues = <<HvLow, HvLow>>
  /\ heap[last.args.other].hashvalues \in HashvalueInputs

\* C6: merge with a MinHash of the same seed and slot count but another
\* digest algorithm is rejected and leaves the receiver's hash values alone.
C6_MergeRejectsOtherDigest ==
  [][ (/\ last'.op = "merge"
       /\ heap[last'.args.self].seed = heap[last'.args.other].seed
       /\ Len(heap[last'.args.self].hashvalues) = Len(heap[last'.args.other].hashvalues)
       /\ heap[last'.args.self].hashobj # heap[last'.args.other].hashobj)
      => /\ last'.res # "ok"
         /\ heap'[last'.args.self].hashvalues = heap[last'.args.self].hashvalues ]_vars

\* the sketches a union call was handed
UnionInputs == Tuple([k \in 1..Len(last.args.mhs) |-> heap[last.args.mhs[k]]])

\* all of one seed and one slot count
Compatible(mhs) ==
  \A k \in 1..Len(mhs) :
     /\ mhs[k].seed = mhs[1].seed
     /\ Len(mhs[k].hashvalues) = Len(mhs[1].hashvalues)

\* C7: for three sketches a, b, c of one seed and slot count, union(a, b, c)
\* returns the hash values of merge(merge(a, b), c) and of
\* merge(a, merge(b, c)), and merge(a, b) has those of merge(b, a).
C7_UnionIsMergeFold ==
  (last.op = "union" /\ Len(last.args.mhs) = 3 /\ Compatible(UnionInputs))
  => LET a  == UnionInputs[1]
         b  == UnionInputs[2]
         c  == UnionInputs[3]
         ab == merge(a, b).obj
         bc == merge(b, c).obj
     IN  /\ last.res = "ok"
         /\ heap[last.ret].hashvalues = merge(ab, c).obj.hashvalues
         /\ merge(ab, c).obj.hashvalues = merge(a, bc).obj.hashvalues
         /\ ab.hashvalues = merge(b, a).obj.hashvalues

\* C8: union of fewer than two sketches, or of sketches whose seeds or slot
\* counts differ, raises ValueError (the spec's ConfigError); any other union
\* returns a new sketch of that seed and slot count whose every slot is the
\* smallest of the inputs' (so union(s, s) equals s); no input changes.
C8_UnionContract ==
  [][ last'.op = "union"
      => LET ids == last'.args.mhs
             ms  == Tuple([k \in 1..Len(ids) |-> heap[ids[k]]])
         IN  /\ \A x \in Allocated : heap'[x] = heap[x]
             /\ IF Len(ids) < 2 \/ ~Compatible(ms)
                THEN last'.res = "ValueError" /\ last'.ret = 0
                ELSE /\ last'.res = "ok"
                     /\ LET u == heap'[last'.ret]
                        IN  /\ u.seed = ms[1].seed
                            /\ Len(u.hashvalues) = Len(ms[1].hashvalues)
                            /\ \A slot \in 1..Len(u.hashvalues) :
                                  /\ \E k \in 1..Len(ms) :
                                        u.hashvalues[slot] = ms[k].hashvalues[slot]
                                  /\ \A k \in 1..Len(ms) :
                                        Le(u.hashvalues[slot], ms[k].hashvalues[slot]) ]_vars

\* C9: decoding the bytes a valid sketch (every hash value at most 2^32 - 1)
\* was encoded to returns a sketch of the same seed, slot count, hash values
\* and finalized flag, which holds permutations iff it is not finalized.
C9_RoundTrip ==
  \A i \in MinHashes :
     (/\ last.op = "deserialize"
      /\ last.args.k = Len(buf)
      /\ \A k \in 1..Len(heap[i].hashvalues) : Le(heap[i].hashvalues[k], MaxHash)
      /\ buf = Pack(heap[i]))
     => /\ last.res = "ok"
        /\ LET d == heap[last.ret]
           IN  /\ d.seed = heap[i].seed
               /\ Len(d.hashvalues) = Len(heap[i].hashvalues)
               /\ d.hashvalues = heap[i].hashvalues
               /\ d.finalized = heap[i].finalized
               /\ (d.permutations.st = "array") <=> ~d.finalized

\* the bytes of a MinHash of two distinct hash values were decoded to another
\* MinHash
C9_Witness ==
  /\ last.op = "deserialize"
  /\ last.res = "ok"
  /\ last.args.k = Len(buf)
  /\ \E i \in MinHashes \ {last.ret} :
        /\ buf = Pack(heap[i])
        /\ heap[i].hashvalues = <<HvLow, HvHigh>>
        /\ heap[last.ret].hashvalues = heap[i].hashvalues

\* C10: a buffer too short for the 12-byte header, or for the hash values
\* the header declares, fails to decode and yields no sketch; a buffer that
\* holds the header and every hash value but no finalized byte decodes, to a
\* sketch that is not finalized.
C10_LenientDecode ==
  last.op = "deserialize"
  => LET b      == SubSeq(buf, 1, last.args.k)
         header == seed_size + length_size
     IN  IF Len(b) < header
         THEN last.res # "ok" /\ last.ret = 0
         ELSE LET n      == UnpackInt(SubSeq(b, seed_size + 1, header))
                  values == header + n * hashvalue_size
              IN  /\ Len(b) < values => (last.res # "ok" /\ last.ret = 0)
                  /\ (Len(b) = values /\ n >= 1)
                       => (last.res = "ok" /\ ~heap[last.ret].finalized)

C12_ImmutabilityEnforced ==
  [][ /\ last'.op \in {"ImmutableMinHash.update", "ImmutableMinHash.merge"}
         => last'.res = "TypeError"
      /\ \A i \in Views :
            /\ heap'[i].cls = "ImmutableMinHash"
            /\ heap'[i].seed = heap[i].seed
            /\ heap'[i].hashvalues = heap[i].hashvalues
            /\ heap'[i].hashobj = heap[i].hashobj ]_vars

\* C13: serialize on an ImmutableMinHash, into a buffer as large as
\* bytesize() asks, succeeds and writes seed (8 bytes), slot count (4) and
\* the n hash values (4 each) and nothing after them, and
\* ImmutableMinHash.deserialize of the buffer returns the same seed and hash
\* values.
C13_ImmutableCodec ==
  [][ (/\ last'.op = "serialize"
       /\ heap[last'.args.self].cls = "ImmutableMinHash"
       /\ last'.args.size >= bytesize(heap[last'.args.self]))
      => LET o == heap[last'.args.self]
             n == Len(o.hashvalues)
             d == Immutable_deserialize(buf')
         IN  /\ last'.res = "ok"
             /\ SubSeq(buf', 1, 8) = FromNat(o.seed, 8)
             /\ SubSeq(buf', 9, 12) = FromNat(n, 4)
             /\ \A k \in 1..n :
                   SubSeq(buf', 9 + 4 * k, 12 + 4 * k) = SubSeq(o.hashvalues[k], 1, 4)
             /\ \A j \in (13 + 4 * n)..Len(buf') : buf'[j] = 0
             /\ d.res = "ok"
             /\ d.obj.seed = o.seed
             /\ d.obj.hashvalues = o.hashvalues ]_vars

\* C14: copy() on an ImmutableMinHash returns another ImmutableMinHash of the
\* same seed, hash values and digest algorithm, and changes no object.
C14_ImmutableCopy ==
  [][ last'.op = "ImmutableMinHash.copy"
      => LET o == heap[last'.args.self]
         IN  /\ last'.res = "ok"
             /\ last'.ret # last'.args.self
             /\ heap'[last'.ret].cls = "ImmutableMinHash"
             /\ heap'[last'.ret].seed = o.seed
             /\ heap'[last'.ret].hashvalues = o.hashvalues
             /\ heap'[last'.ret].hashobj = o.hashobj
             /\ \A x \in Allocated : heap'[x] = heap[x] ]_vars

\* the digest algorithm is the default one: hashlib.sha1, the default of
\* MinHash's hashobj, or the name decoding gives it
DefaultDigest(o) == o.hashobj \in {"sha1", Sha1Str}

\* C15: an ImmutableMinHash decoded from bytes carries the digest algorithm
\* an ImmutableMinHash built from a default MinHash carries (hashlib.sha1),
\* and ImmutableMinHash.union of two or more objects of the default digest
\* algorithm, one seed and one slot count is not rejected.
C15_DecodedDigestIsDefault ==
  [][ /\ (last'.op = "ImmutableMinHash.deserialize" /\ last'.res = "ok")
         => heap'[last'.ret].hashobj = "sha1"
      /\ LET ms == Tuple([k \in 1..Len(last'.args.mhs) |-> heap[last'.args.mhs[k]]])
         IN  (/\ last'.op = "ImmutableMinHash.union"
              /\ Len(ms) >= 2
              /\ Compatible(ms)
              /\ \A k \in 1..Len(ms) : DefaultDigest(ms[k]))
             => last'.res # "ValueError" ]_vars

\* the permutations array generate_permutations is documented to derive
\* from a seed, for n slots
PairsOf(seed, n) ==
  << [k \in 1..n |-> RandomPairs(seed)[k][1]],
     [k \in 1..n |-> RandomPairs(seed)[k][2]] >>

\* C16: generate_permutations(seed, n) on a finalized MinHash of n slots
\* installs the n pairs generated from `seed` and sets finalized to False,
\* so that an update then succeeds, and, `seed` being the sketch's own, gives
\* the hash values it gives on the same sketch never finalized.
C16_GenerateUnfinalizes ==
  [][ (/\ last'.op = "generate_permutations"
       /\ heap[last'.args.self].cls = "MinHash"
       /\ heap[last'.args.self].finalized
       /\ last'.args.num_perm = Len(heap[last'.args.self].hashvalues))
      => LET i    == last'.args.self
             o    == heap[i]
             seed == last'.args.seed
             twin == [o EXCEPT !.finalized = FALSE,
                               !.permutations =
                                  PermArray(PairsOf(o.seed, Len(o.hashvalues)))]
         IN  /\ last'.res = "ok"
             /\ heap'[i].permutations = PermArray(PairsOf(seed, last'.args.num_perm))
             /\ ~heap'[i].finalized
             /\ \A b \in Items :
                   /\ update(heap'[i], b).res = "ok"
                   /\ seed = o.seed
                        => update(heap'[i], b).obj.hashvalues
                             = update(twin, b).obj.hashvalues ]_vars

\* C17: load_permutations(params) on a MinHash, finalized or not, raises
\* ValueError (the spec's ConfigError) and changes nothing when params holds
\* another number of pairs than the sketch has slots, and otherwise makes
\* params the sketch's permutations and finalized False; MinHash(...,
\* permutations=params) with finalized False is rejected or accepted by the
\* same count.
C17_LoadPermutations ==
  [][ /\ (last'.op = "load_permutations" /\ heap[last'.args.self].cls = "MinHash")
         => LET i == last'.args.self
                o == heap[i]
                q == last'.args.permutations
            IN  IF Len(q[1]) # Len(o.hashvalues)
                THEN last'.res = "ValueError" /\ heap'[i] = o
                ELSE /\ last'.res = "ok"
                     /\ heap'[i] = [o EXCEPT !.permutations = PermArray(q),
                                             !.finalized = FALSE]
      /\ (/\ last'.op = "__init__"
          /\ last'.args.permutations # None
          /\ ~last'.args.finalized)
         => LET c == last'.args
                n == IF c.hashvalues # None THEN Len(c.hashvalues[1])
                     ELSE c.num_perm
            IN  IF Len(c.permutations[1][1]) # n
                THEN last'.res = "ValueError"
                ELSE /\ last'.res = "ok"
                     /\ heap'[last'.ret].permutations = PermArray(c.permutations[1])
                     /\ ~heap'[last'.ret].finalized ]_vars

\* C18: of every MinHash, in every reachable state: finalized implies that
\* it holds no permutations, holding none implies that update is rejected,
\* and it is finalized exactly when it holds none.
C18_LifecycleInvariant ==
  \A i \in MinHashes :
     LET o == heap[i]
     IN  /\ o.finalized => o.permutations = PermNone
         /\ o.permutations.st # "array"
              => \A b \in Items :
                    /\ update(o, b).res = "ValueError"
                    /\ update(o, b).obj = o
         /\ o.finalized <=> (o.permutations.st # "array")

\* finalize was called on a MinHash constructed with two distinct hash values
C18_Witness ==
  /\ last.op = "finalize"
  /\ heap[Self].cls = "MinHash"
  /\ heap[Self].finalized
  /\ heap[Self].permutations = PermNone
  /\ heap[Self].hashvalues = <<HvLow, HvHigh>>

\* C19: no call changes the number of hash values of a MinHash, and every
\* MinHash that holds permutations holds as many pairs as it has hash
\* values.
C19_SlotCountInvariant ==
  [][ /\ \A i \in MinHashes :
            Len(heap'[i].hashvalues) = Len(heap[i].hashvalues)
      /\ \A i \in Ids :
            (heap'[i].cls = "MinHash" /\ heap'[i].permutations.st = "array")
            => /\ Len(heap'[i].permutations.rows[1]) = Len(heap'[i].hashvalues)
               /\ Len(heap'[i].permutations.rows[2]) = Len(heap'[i].hashvalues) ]_vars

\* a MinHash of two hash values took the minima with another, while a MinHash
\* of one hash value exists
C19_Witness ==
  /\ last.op = "merge"
  /\ last.res = "ok"
  /\ heap[Self].cls = "MinHash"
  /\ Len(heap[Self].hashvalues) = 2
  /\ \E i \in MinHashes : Len(heap[i].hashvalues) = 1

\* C20: every hash value of every object is at most 2^32 - 1; a sketch just
\* cleared has every hash value equal to 2^32 - 1, as does the MinHash that
\* __init__ returns for its seed and number of slots when it is given no
\* hashvalues, and is_empty() is true of both.
C20_ValueRange ==
  /\ \A i \in Allocated :
        \A k \in 1..Len(heap[i].hashvalues) : Le(heap[i].hashvalues[k], MaxHash)
  /\ last.op = "clear"
       => LET o == heap[Self]
              n == Len(o.hashvalues)
              r == MinHash(n, o.seed, o.hashobj, None, None, TRUE)
          IN  /\ is_empty(o)
              /\ \A k \in 1..n : o.hashvalues[k] = MaxHash
              /\ r.res = "ok"
              /\ r.obj.hashvalues = o.hashvalues
              /\ is_empty(r.obj)

\* the calls made on an object, last.args.self
SelfOps ==
  {"update", "merge", "clear", "finalize", "serialize", "copy",
   "generate_permutations", "load_permutations", "__setstate__",
   "ImmutableMinHash.copy", "ImmutableMinHash.update",
   "ImmutableMinHash.merge", "ImmutableMinHash.__setstate__"}

\* C21: ImmutableMinHash(s) holds the seed and the hash values of s in an
\* array of its own, which no other object holds; update, merge, clear,
\* finalize and __setstate__ on another object leave an ImmutableMinHash's
\* seed and hash values as they were; and a call on an ImmutableMinHash
\* changes no other object.
C21_ViewIndependence ==
  [][ /\ (last'.op = "ImmutableMinHash.__init__" /\ last'.res = "ok")
         => /\ heap'[last'.ret].seed = heap[last'.args.minhash].seed
            /\ heap'[last'.ret].hashvalues = heap[last'.args.minhash].hashvalues
            /\ heap'[last'.args.minhash] = heap[last'.args.minhash]
      /\ \A p \in shared' : \A v \in p : heap'[v].cls # "ImmutableMinHash"
      /\ last'.op \in {"update", "merge", "clear", "finalize", "__setstate__"}
         => \A v \in Views \ {last'.args.self} :
               /\ heap'[v].seed = heap[v].seed
               /\ heap'[v].hashvalues = heap[v].hashvalues
      /\ (last'.op \in SelfOps /\ last'.args.self \in Views)
         => \A x \in Allocated \ {last'.args.self} : heap'[x] = heap[x] ]_vars

\* a MinHash was cleared while an ImmutableMinHash of its seed keeps the two
\* distinct hash values it was built with
C21_Witness ==
  /\ last.op = "clear"
  /\ heap[Self].cls = "MinHash"
  /\ is_empty(heap[Self])
  /\ \E v \in Views :
        /\ heap[v].seed = heap[Self].seed
        /\ heap[v].hashvalues \in HashvalueInputs

====
